---- MODULE Spec2Model ----
(***************************************************************************)
(* State-machine model of the EntryList component                          *)
(* (src/components/EntryList.tsx).                                          *)
(*                                                                         *)
(* The component's React state (entries, searchQuery, isLoading, cursor,   *)
(* hasMore), its datastoreName prop, the fetches whose response has not    *)
(* been handled yet, the pending debounce timers and the intersection      *)
(* observer attached to the load-more sentinel are the variables.          *)
(*                                                                         *)
(* One action models one handler together with the render it causes and    *)
(* the effects that render runs: state updates made by one handler are     *)
(* batched into one render, the callback ref of the sentinel is detached   *)
(* and re-attached when its identity changes (its returned cleanup is      *)
(* honoured), and the effects whose dependencies changed run their cleanup *)
(* and their body before the next handler runs.  universeId, apiToken and  *)
(* toast are taken to keep their identity for the life of the component.   *)
(***************************************************************************)
EXTENDS Integers, Sequences, FiniteSets, TLC

\* ---------------------------------------------------------------- bounds
MaxInflight == 2    \* fetches whose response has not been handled yet
MaxEntries  == 3    \* length of the accumulated entry list

\* ---------------------------------------------------------------- values
NoVal == "<absent>"              \* a string field the body does not carry
NoKeys == <<NoVal>>              \* the body carries no keys field

Prefixes == {"", "x"}
DatastoreNames == {"", "ds1", "ds2"}
Cursors == {"", "c1"}

\* the pages of keys a response may carry
Pages == {<<>>, <<"a">>, <<"a", "b">>}

\* JavaScript truthiness of an optional string field
Truthy(v) == v # NoVal /\ v # ""

\* response bodies { keys?, nextPageCursor?, error? }
Bodies ==
    {b \in [error : {NoVal, "not found"},
            keys : Pages \cup {NoKeys},
            nextPageCursor : Cursors \cup {NoVal}] :
        Truthy(b.error) => (b.keys = NoKeys /\ b.nextPageCursor = NoVal)}

\* what fetch() or response.json() can throw
Thrown == {[isError |-> TRUE, message |-> "Failed to fetch"],
           [isError |-> FALSE, message |-> NoVal]}

None == [query |-> NoVal, cursor |-> NoVal, ds |-> NoVal]

VARIABLES
    entries,        \* useState: the accumulated entry keys
    searchQuery,    \* useState: the search text
    isLoading,      \* useState: the loading flag
    cursor,         \* useState: the stored cursor
    hasMore,        \* useState: the has-more flag
    datastoreName,  \* prop
    mounted,        \* the component is mounted
    inflight,       \* requests issued and not yet answered, in issue order
    timers,         \* pending debounce timers, each with the values it closed over
    observer,       \* the IntersectionObserver on the sentinel, or None
    last,           \* history: the handler that ran last and what it did
    arrived,        \* history: the non-empty pages applied since the last fresh page
    applied,        \* history: some successful response has been applied
    overtaken,      \* history: per in-flight request, a later-issued one was applied
    origin          \* history (when on): the requests the stored cursor and the
                    \* listed entries were returned for

vars == <<entries, searchQuery, isLoading, cursor, hasMore, datastoreName, mounted,
          inflight, timers, observer, last, arrived, applied, overtaken, origin>>

\* ------------------------------------------------------------ fetchEntries
CurrentCursor(newSearch, cur) == IF newSearch THEN "" ELSE cur

\* the request fetchEntries(searchValue, newSearch) sends, from a closure over
\* (cur, ds); the cursor parameter is sent only when it is non-empty
Request(searchValue, newSearch, cur, ds) ==
    [prefix |-> searchValue, newSearch |-> newSearch,
     cursor |-> CurrentCursor(newSearch, cur), ds |-> ds]

IssueCancelling(fl, r) == <<r>>
\* a fetch is started; the earlier ones stay in flight
Issue(fl, r) == Append(fl, r)

FormattedEntries(data) == IF data.keys = NoKeys THEN <<>> ELSE data.keys

NextEntriesPrepending(prev, newSearch, formatted) ==
    IF newSearch THEN formatted ELSE formatted \o prev
NextEntriesAlwaysAppending(prev, newSearch, formatted) == prev \o formatted
NextEntriesReplacing(prev, newSearch, formatted) == formatted
NextEntries(prev, newSearch, formatted) ==
    IF newSearch THEN formatted ELSE prev \o formatted

NextCursorKept(data, cur) ==
    IF Truthy(data.nextPageCursor) THEN data.nextPageCursor ELSE cur
NextCursor(data, cur) ==
    IF Truthy(data.nextPageCursor) THEN data.nextPageCursor ELSE ""

NextHasMoreDefined(data) == data.nextPageCursor # NoVal
NextHasMore(data) == Truthy(data.nextPageCursor)

ErrorMessage(err) == IF err.isError THEN err.message ELSE "Unknown error"
ToastMessageBare(err) == ErrorMessage(err)
ToastMessage(err) == "Error: " \o ErrorMessage(err)

\* ----------------------------------------------------------------- render
\* identity of fetchEntries: its dependencies that can change
FetchEntriesChanged(c, d) == c # cursor \/ d # datastoreName

DatastoreEffectRuns(c, d) == d # datastoreName \/ FetchEntriesChanged(c, d)

DebounceEffectRuns(q, c, d) ==
    q # searchQuery \/ FetchEntriesChanged(c, d) \/ d # datastoreName

NewTimer(q, d) == [query |-> q, ds |-> d]

DebounceCleanupMissing(ts) == ts
\* clearTimeout(timer)
DebounceCleanup(ts) == {}

ObserverTargetNoGuard(l, h, q, c, d) ==
    IF ~h THEN None ELSE [query |-> q, cursor |-> c, ds |-> d]
\* the sentinel is rendered only while hasMore; the ref creates an observer
\* unless isLoading or not hasMore
ObserverTarget(l, h, q, c, d) ==
    IF ~h \/ l THEN None ELSE [query |-> q, cursor |-> c, ds |-> d]

\* The render after a handler left the state (e, q, l, c, h), the prop d, the
\* in-flight requests fl and the timers ts, and the effects that render runs.
Commit(e, q, l, c, h, d, fl, ov, ts) ==
    LET eff1 == DatastoreEffectRuns(c, d) /\ d # ""
        eff2 == DebounceEffectRuns(q, c, d)
        l2   == IF eff1 THEN TRUE ELSE l
    IN  /\ entries' = e
        /\ searchQuery' = q
        /\ cursor' = c
        /\ hasMore' = h
        /\ datastoreName' = d
        /\ isLoading' = l2
        /\ inflight' = IF eff1 THEN Issue(fl, Request("", TRUE, c, d)) ELSE fl
        /\ overtaken' = IF eff1 THEN Append(ov, FALSE) ELSE ov
        /\ timers' = IF eff2 THEN DebounceCleanup(ts) \cup {NewTimer(q, d)} ELSE ts
        /\ observer' = ObserverTarget(l2, h, q, c, d)

Event(kind, fresh, keys, next, toast, stale) ==
    [kind |-> kind, fresh |-> fresh, keys |-> keys, next |-> next,
     toast |-> toast, stale |-> stale]

\* the request a response was returned for, as far as the backend tells
\* requests apart by what they list: its prefix and its datastore name
Source(r) == <<r.prefix, r.ds>>
NoSource == <<NoVal, NoVal>>
Mixed == <<"<mixed>", "<mixed>">>
NoOrigin(on) == [on |-> on, cursor |-> NoSource, entries |-> NoSource]

\* the one source of all listed entries, NoSource for none, Mixed for several
JoinSource(a, b) == IF a = NoSource THEN b ELSE IF b = NoSource \/ a = b THEN a ELSE Mixed

\* origin after the successful response to r with the keys formatted
NextOrigin(o, r, formatted) ==
    IF ~o.on THEN o
    ELSE [on |-> TRUE,
          cursor |-> Source(r),
          entries |-> JoinSource(IF r.newSearch THEN NoSource ELSE o.entries,
                                 IF formatted = <<>> THEN NoSource ELSE Source(r))]

RemoveAt(s, i) == SubSeq(s, 1, i - 1) \o SubSeq(s, i + 1, Len(s))

\* ------------------------------------------------------------------- Init
\* The state after the first render and its effects: the observer the ref
\* created is disconnected again when the datastore effect sets isLoading.
Mounting ==
    /\ datastoreName \in DatastoreNames
    /\ entries = <<>>
    /\ searchQuery = ""
    /\ cursor = ""
    /\ hasMore = TRUE
    /\ mounted = TRUE
    /\ isLoading = (datastoreName # "")
    /\ inflight = IF datastoreName # ""
                  THEN Issue(<<>>, Request("", TRUE, "", datastoreName)) ELSE <<>>
    /\ overtaken = IF datastoreName # "" THEN <<FALSE>> ELSE <<>>
    /\ timers = {NewTimer("", datastoreName)}
    /\ observer = ObserverTarget(isLoading, TRUE, "", "", datastoreName)
    /\ last = Event("init", FALSE, <<>>, NoVal, NoVal, FALSE)
    /\ arrived = <<>>
    /\ applied = FALSE

Init == Mounting /\ origin = NoOrigin(FALSE)

\* the same component, with the origin of cursor and entries recorded
OriginInit == Mounting /\ datastoreName # "" /\ origin = NoOrigin(TRUE)

\* ---------------------------------------------------------------- actions
\* Input onChange: setSearchQuery(v); fetchEntries(v, true)
SearchChange(v) ==
    /\ mounted
    /\ v # searchQuery
    /\ Len(inflight) < MaxInflight
    /\ LET r == Request(v, TRUE, cursor, datastoreName)
       IN  /\ Commit(entries, v, TRUE, cursor, hasMore, datastoreName,
                     Issue(inflight, r), Append(overtaken, FALSE), timers)
           /\ last' = Event("search", TRUE, <<>>, NoVal, NoVal, FALSE)
    /\ UNCHANGED <<mounted, arrived, applied, origin>>

\* the parent passes another datastoreName
DatastoreChange(d) ==
    /\ mounted
    /\ d # datastoreName
    /\ (d # "" => Len(inflight) < MaxInflight)
    /\ Commit(entries, searchQuery, isLoading, cursor, hasMore, d,
              inflight, overtaken, timers)
    /\ last' = Event("datastore", d # "", <<>>, NoVal, NoVal, FALSE)
    /\ UNCHANGED <<mounted, arrived, applied, origin>>

\* the debounce timer expires
TimerFires(t) ==
    /\ mounted
    /\ t \in timers
    /\ (t.ds # "" => Len(inflight) < MaxInflight)
    /\ LET r == Request(t.query, TRUE, cursor, t.ds)
       IN  IF t.ds # ""
           THEN /\ Commit(entries, searchQuery, TRUE, cursor, hasMore, datastoreName,
                          Issue(inflight, r), Append(overtaken, FALSE), timers \ {t})
                /\ last' = Event("timer", TRUE, <<>>, NoVal, NoVal, FALSE)
           ELSE /\ Commit(entries, searchQuery, isLoading, cursor, hasMore,
                          datastoreName, inflight, overtaken, timers \ {t})
                /\ last' = Event("timer", FALSE, <<>>, NoVal, NoVal, FALSE)
    /\ UNCHANGED <<mounted, arrived, applied, origin>>

\* the sentinel is fully visible: the observer calls fetchEntries(searchQuery)
SentinelVisible ==
    /\ mounted
    /\ observer # None
    /\ Len(inflight) < MaxInflight
    /\ LET r == Request(observer.query, FALSE, observer.cursor, observer.ds)
       IN  /\ Commit(entries, searchQuery, TRUE, cursor, hasMore, datastoreName,
                     Issue(inflight, r), Append(overtaken, FALSE), timers)
           /\ last' = Event("sentinel", FALSE, <<>>, NoVal, NoVal, FALSE)
    /\ UNCHANGED <<mounted, arrived, applied, origin>>

MarkOvertaken(ov, i) == [j \in 1..Len(ov) |-> IF j < i THEN TRUE ELSE ov[j]]

\* the response to in-flight request i carries a body without error
ResponseSuccess(i, data) ==
    /\ mounted
    /\ i \in 1..Len(inflight)
    /\ ~Truthy(data.error)
    /\ LET r == inflight[i]
           formatted == FormattedEntries(data)
           e == NextEntries(entries, r.newSearch, formatted)
           c == NextCursor(data, cursor)
       IN  /\ Len(e) <= MaxEntries
           /\ Commit(e, searchQuery, FALSE, c, NextHasMore(data), datastoreName,
                     RemoveAt(inflight, i), RemoveAt(MarkOvertaken(overtaken, i), i),
                     timers)
           /\ last' = Event("success", r.newSearch, formatted, data.nextPageCursor, NoVal,
                            overtaken[i])
           /\ arrived' = IF r.newSearch
                         THEN (IF formatted = <<>> THEN <<>> ELSE <<formatted>>)
                         ELSE (IF formatted = <<>> THEN arrived
                               ELSE Append(arrived, formatted))
    /\ applied' = TRUE
    /\ origin' = NextOrigin(origin, inflight[i], FormattedEntries(data))
    /\ UNCHANGED mounted

\* fetch or json() throws, or the body carries an error
Failure(i, err) ==
    /\ mounted
    /\ i \in 1..Len(inflight)
    /\ Commit(entries, searchQuery, FALSE, cursor, hasMore, datastoreName,
              RemoveAt(inflight, i), RemoveAt(overtaken, i), timers)
    /\ last' = Event("failure", inflight[i].newSearch, <<>>, NoVal,
                     ToastMessage(err), overtaken[i])
    /\ UNCHANGED <<mounted, arrived, applied, origin>>

ResponseThrows(i, t) == Failure(i, t)

ResponseError(i, data) ==
    /\ Truthy(data.error)
    /\ Failure(i, [isError |-> TRUE, message |-> data.error])

\* the component is unmounted: effect cleanups and ref cleanup run
Unmount ==
    /\ mounted
    /\ mounted' = FALSE
    /\ timers' = DebounceCleanup(timers)
    /\ observer' = None
    /\ last' = Event("unmount", FALSE, <<>>, NoVal, NoVal, FALSE)
    /\ UNCHANGED <<entries, searchQuery, isLoading, cursor, hasMore, datastoreName,
                   inflight, arrived, applied, overtaken, origin>>

\* a response arrives after unmount: the state updates have no effect, the
\* toast of a failure is still shown
LateResponse(i, failed, err) ==
    /\ ~mounted
    /\ i \in 1..Len(inflight)
    /\ inflight' = RemoveAt(inflight, i)
    /\ overtaken' = RemoveAt(overtaken, i)
    /\ last' = Event("late", inflight[i].newSearch, <<>>, NoVal,
                     IF failed THEN ToastMessage(err) ELSE NoVal, FALSE)
    /\ UNCHANGED <<entries, searchQuery, isLoading, cursor, hasMore, datastoreName,
                   mounted, timers, observer, arrived, applied, origin>>

OnSelectCallsTwice(key) == <<key, key>>
\* handleEntrySelect(key): the arguments onSelectEntry is called with, in order
OnSelectCalls(key) == <<key>>

\* the button of entry n is clicked
EntrySelect(n) ==
    /\ mounted
    /\ n \in 1..Len(entries)
    /\ Commit(entries, searchQuery, isLoading, cursor, hasMore, datastoreName,
              inflight, overtaken, timers)
    /\ last' = Event("select", FALSE, OnSelectCalls(entries[n]), NoVal, NoVal, FALSE)
    /\ UNCHANGED <<mounted, arrived, applied, origin>>

Next ==
    \/ \E v \in Prefixes : SearchChange(v)
    \/ \E d \in DatastoreNames : DatastoreChange(d)
    \/ \E t \in timers : TimerFires(t)
    \/ SentinelVisible
    \/ \E i \in 1..MaxInflight, data \in Bodies : ResponseSuccess(i, data)
    \/ \E i \in 1..MaxInflight, t \in Thrown : ResponseThrows(i, t)
    \/ \E i \in 1..MaxInflight, data \in Bodies : ResponseError(i, data)
    \/ \E n \in 1..MaxEntries : EntrySelect(n)
    \/ Unmount
    \/ \E i \in 1..MaxInflight, failed \in BOOLEAN, t \in Thrown : LateResponse(i, failed, t)

Spec == Init /\ [][Next]_vars

\* the component while it stays mounted with a datastore name and no entry
\* is clicked
OriginNext ==
    \/ \E v \in Prefixes : SearchChange(v)
    \/ \E d \in DatastoreNames \ {""} : DatastoreChange(d)
    \/ \E t \in timers : TimerFires(t)
    \/ SentinelVisible
    \/ \E i \in 1..MaxInflight, data \in Bodies : ResponseSuccess(i, data)
    \/ \E i \in 1..MaxInflight, data \in Bodies : ResponseError(i, data)

OriginSpec == OriginInit /\ [][OriginNext]_vars

\* ------------------------------------------------- fair specifications
\* The component while it stays mounted and every request is answered
\* successfully: the responses arrive (the oldest request is answered at
\* last) and a pending timer expires.
AnswerOldest == \E data \in Bodies : ResponseSuccess(1, data)

LiveNext ==
    \/ \E v \in Prefixes : SearchChange(v)
    \/ \E d \in DatastoreNames : DatastoreChange(d)
    \/ \E t \in timers : TimerFires(t)
    \/ SentinelVisible
    \/ \E i \in 1..MaxInflight, data \in Bodies : ResponseSuccess(i, data)

LiveSpec ==
    /\ Init /\ [][LiveNext]_vars
    /\ WF_vars(AnswerOldest)
    /\ WF_vars(\E t \in timers : TimerFires(t))

\* A backend whose answer depends on the request alone: the listing for
\* prefix "x" has two pages, every other listing has one.
BackendBody(r) ==
    [error |-> NoVal,
     keys |-> IF r.prefix = "x" THEN <<"a">> ELSE <<"a", "b">>,
     nextPageCursor |-> IF r.prefix = "x" /\ r.cursor = "" THEN "c1" ELSE NoVal]

BackendAnswers(i) ==
    /\ i \in 1..Len(inflight)
    /\ ResponseSuccess(i, BackendBody(inflight[i]))

\* The component against that backend, while it stays mounted and the
\* sentinel is out of view.
QuietNext ==
    \/ \E v \in Prefixes : SearchChange(v)
    \/ \E d \in DatastoreNames : DatastoreChange(d)
    \/ \E t \in timers : TimerFires(t)
    \/ \E i \in 1..MaxInflight : BackendAnswers(i)

QuietSpec ==
    /\ Init /\ [][QuietNext]_vars
    /\ WF_vars(BackendAnswers(1))
    /\ WF_vars(\E t \in timers : TimerFires(t))

\* ------------------------------------------------------------------ claims
RECURSIVE Flatten(_)
Flatten(ss) == IF ss = <<>> THEN <<>> ELSE Head(ss) \o Flatten(Tail(ss))

IsPrefix(s, t) == Len(s) <= Len(t) /\ SubSeq(t, 1, Len(s)) = s

IssuedLast == inflight[Len(inflight)]

\* C1: when the successful response of a fresh-search fetch is applied, the
\* entry list is exactly the keys of that response, in order; nothing of the
\* list accumulated before remains.
C1_FreshSearchResets ==
    (last.kind = "success" /\ last.fresh) => entries = last.keys

C1_Witness ==
    /\ last.kind = "success" /\ last.fresh
    /\ last.keys = <<"a">> /\ entries = <<"a">>
    /\ Len(arrived) = 1

\* C2: the entry list is the concatenation, in arrival order, of the pages
\* applied since (and including) the last fresh page, and has-more is true
\* after every successful response that carries a non-empty nextPageCursor.
C2_PagesConcatenated ==
    /\ entries = Flatten(arrived)
    /\ (last.kind = "success" /\ Truthy(last.next)) => hasMore

C2_Witness ==
    /\ last.kind = "success" /\ ~last.fresh /\ Truthy(last.next)
    /\ arrived = << <<"a">>, <<"a", "b">> >>
    /\ entries = <<"a", "a", "b">>
    /\ hasMore

\* C3: a fetch that fails (fetch or json() throws, or the body carries an
\* error) produces the notification "Error: <message>", clears the loading
\* flag and leaves the entry list, the stored cursor, the has-more flag and
\* the search text as they were.
C3_FailureKeepsState ==
    [][last'.kind = "failure" =>
       \A i \in 1..MaxInflight :
          /\ \A t \in Thrown :
                ResponseThrows(i, t) =>
                    /\ entries' = entries /\ cursor' = cursor
                    /\ hasMore' = hasMore /\ searchQuery' = searchQuery
                    /\ isLoading' = FALSE
                    /\ last'.toast = "Error: " \o
                          (IF t.isError THEN t.message ELSE "Unknown error")
          /\ \A data \in Bodies :
                ResponseError(i, data) =>
                    /\ entries' = entries /\ cursor' = cursor
                    /\ hasMore' = hasMore /\ searchQuery' = searchQuery
                    /\ isLoading' = FALSE
                    /\ last'.toast = "Error: " \o data.error]_vars

C3_Witness ==
    /\ last.kind = "failure" /\ last.toast = "Error: not found"
    /\ entries = <<"a", "b">> /\ cursor = "c1" /\ hasMore /\ ~isLoading

\* C4: a successful response without a non-empty nextPageCursor leaves
\* has-more false, and while has-more is false the sentinel has no observer
\* and issues no fetch.
C4_ExhaustedStopsSentinel ==
    /\ (last.kind = "success" /\ ~Truthy(last.next)) => ~hasMore
    /\ ~hasMore => observer = None
    /\ last.kind = "sentinel" => hasMore

C4_Witness ==
    /\ last.kind = "success" /\ last.next = "" /\ ~hasMore
    /\ entries # <<>> /\ ~isLoading /\ observer = None /\ mounted

\* C5: issuing a fetch leaves the earlier fetches in flight, and the response
\* of a fresh search that a later-issued fetch has overtaken is applied like
\* any other: the entry list becomes the keys of that stale response.
C5_StaleResponseApplied ==
    [][/\ last'.kind \in {"search", "datastore", "timer", "sentinel"}
            => IsPrefix(inflight, inflight')
       /\ (last'.kind = "success" /\ last'.fresh /\ last'.stale)
            => entries' = last'.keys]_vars

C5_Witness ==
    /\ last.kind = "success" /\ last.fresh /\ last.stale
    /\ entries = last.keys /\ entries # <<>>

\* C6: whenever a fetch has been issued and its response or error has not been
\* handled yet, the loading flag is true.
C6_LoadingWhileInFlight ==
    (mounted /\ inflight # <<>>) => isLoading

\* C7: the sentinel issues a fetch only from a state whose loading flag is
\* false and whose has-more flag is true; that fetch is a next-page fetch
\* (newSearch = false) with the current search text as prefix.
C7_SentinelGuarded ==
    [][SentinelVisible =>
          /\ ~isLoading /\ hasMore
          /\ Len(inflight') = Len(inflight) + 1
          /\ ~inflight'[Len(inflight')].newSearch
          /\ inflight'[Len(inflight')].prefix = searchQuery]_vars

C7_Witness ==
    /\ last.kind = "sentinel" /\ inflight # <<>>
    /\ ~IssuedLast.newSearch /\ IssuedLast.prefix = "x" /\ searchQuery = "x"

\* C8 as stated: the entry list is empty after every change of the search
\* text or of the datastore name.
C8_ResetOnNewSession ==
    [][(searchQuery' # searchQuery \/ datastoreName' # datastoreName)
          => entries' = <<>>]_vars

\* C8 amended: a change of the search text or of the datastore name leaves
\* the entry list as it is; the response of a fresh search replaces it by
\* that response's page; the page of a continuation is appended, so the list
\* before it is a prefix of the list after it.
C8_ReplacedOnFreshPage ==
    [][/\ (searchQuery' # searchQuery \/ datastoreName' # datastoreName)
            => entries' = entries
       /\ last'.kind = "success" =>
            IF last'.fresh
            THEN entries' = last'.keys
            ELSE /\ IsPrefix(entries, entries')
                 /\ entries' = entries \o last'.keys]_vars

C8_Witness ==
    /\ last.kind = "success" /\ ~last.fresh /\ last.keys = <<"a">>
    /\ entries = <<"a", "b", "a">>

\* C9: after a successful response is applied the stored cursor is that
\* response's nextPageCursor (empty when absent) and has-more is true iff it
\* is non-empty; once a response has been applied, has-more is true iff the
\* stored cursor is non-empty.
C9_CursorAndHasMore ==
    /\ last.kind = "success" =>
          /\ cursor = (IF Truthy(last.next) THEN last.next ELSE "")
          /\ hasMore = Truthy(last.next)
    /\ applied => (hasMore <=> cursor # "")

C9_Witness ==
    /\ last.kind = "success" /\ last.fresh
    /\ last.keys = <<"a", "b">> /\ last.next = ""
    /\ entries = <<"a", "b">> /\ ~hasMore /\ cursor = ""

\* C10: at most one debounce timer is pending, it closed over the current
\* search text and datastore name, none is pending after unmount, and the
\* fetch an expiring timer issues is a fresh search for the current text.
C10_DebounceTimer ==
    /\ Cardinality(timers) <= 1
    /\ \A t \in timers : t.query = searchQuery /\ t.ds = datastoreName
    /\ ~mounted => timers = {}
    /\ (last.kind = "timer" /\ last.fresh) =>
          /\ inflight # <<>>
          /\ IssuedLast.newSearch
          /\ IssuedLast.prefix = searchQuery

C10_Witness ==
    /\ last.kind = "timer" /\ last.fresh /\ searchQuery = "x"
    /\ timers = {} /\ IssuedLast.prefix = "x"

\* C12: clicking the entry with key k calls the selection callback exactly
\* once, with k, and leaves the entry list, the search text, the loading flag,
\* the cursor, has-more, the pending timers, the observer and the in-flight
\* fetches unchanged.
C12_SelectOnlyCallsBack ==
    [][\A n \in 1..MaxEntries :
          EntrySelect(n) =>
              /\ last'.kind = "select" /\ last'.keys = <<entries[n]>>
              /\ UNCHANGED <<entries, searchQuery, isLoading, cursor, hasMore,
                             datastoreName, mounted, inflight, timers, observer>>]_vars

C12_Witness ==
    /\ last.kind = "select" /\ last.keys = <<"b">>
    /\ entries = <<"a", "b">> /\ inflight # <<>> /\ timers # {} /\ isLoading

\* C13: a fresh-search fetch is issued only by a change of the datastore
\* name, a change of the search text or the expiry of the debounce timer;
\* handling a response issues no fetch and leaves the debounce timer alone,
\* the sentinel issues only a next-page fetch, selecting an entry none.
C13_FreshOnlyFromTriggers ==
    [][/\ last'.kind \in {"success", "failure"} =>
            /\ Len(inflight') < Len(inflight)
            /\ timers' = timers
       /\ last'.kind = "sentinel" => ~inflight'[Len(inflight')].newSearch
       /\ last'.kind = "select" => inflight' = inflight]_vars

\* C17: no request is issued with an empty datastore name.
C17_NoRequestWithoutDatastore ==
    \A i \in 1..Len(inflight) : inflight[i].ds # ""

\* C15: a next-page request carries the stored cursor, and that cursor was
\* returned by the most recent successful response, which answered a request
\* with the prefix and the datastore name of the next-page request itself.
C15_ContinuationCursorOrigin ==
    last.kind = "sentinel" =>
        /\ IssuedLast.cursor = cursor
        /\ origin.cursor = Source(IssuedLast)

\* C16: with no fetch in flight and no debounce timer pending, every listed
\* entry was returned for the current search text and datastore name.
C16_EntriesOfCurrentSearch ==
    (mounted /\ inflight = <<>> /\ timers = {}) =>
        origin.entries \in {NoSource, <<searchQuery, datastoreName>>}

\* C11, for the list <<"a">> of a named datastore: after the sentinel issued
\* a fetch with that list displayed, a state is reached in which a next-page response has been
\* applied and the list is <<"a">> followed by its page, unless the search
\* text or the datastore name is changed first.
C11_PreviousListThenNextPage ==
    (last.kind = "sentinel" /\ entries = <<"a">> /\ datastoreName # "")
        ~> \/ last.kind = "success" /\ ~last.fresh /\ entries = <<"a">> \o last.keys
           \/ last.kind \in {"search", "datastore"}

\* C14: once the search text and the datastore name no longer change, a
\* state is reached from which on no fetch is in flight and no debounce timer
\* is pending.
C14_Quiesces ==
    (<>[](last.kind \notin {"search", "datastore"}))
        => <>[](inflight = <<>> /\ timers = {})

====
